---- MODULE Spec2Model ----
(***************************************************************************)
(* CardioCoach: de-identification scrubber, extraction contract and the    *)
(* rule evaluation engine.                                                 *)
(*                                                                         *)
(* Text is modelled by TLA+ strings, which TLC treats as sequences of      *)
(* characters (Len, SubSeq and \o apply to them).                          *)
(***************************************************************************)
EXTENDS Integers, Naturals, Sequences, FiniteSets, TLC

VARIABLES
    extraction,      \* the ExtractionResult object handed to run_rules (mutated in place)
    pristine,        \* a deep copy of the record taken before any evaluation
    alerts,          \* the list returned by the latest run_rules call
    last_call,       \* what the latest call was given: "same" object, a "copy", or "none" yet
    tables,          \* the module-level drug lists of rules_engine.py, as held at run time
    raw_text,        \* the discharge-letter text a request brings
    stage,           \* "idle" until the request is handled, then "done"
    sent,            \* the requests issued to the language-model service
    content,         \* the message content the service replied with
    result,          \* what the handler returned or raised
    original,        \* the text deidentify_text was first called with
    scrub_text,      \* deidentify_text's local text, reassigned by each re.sub
    rule_no,         \* how many of the five re.sub lines the current call has run
    outputs,         \* what each completed call of deidentify_text returned
    heap,            \* the ExtractionResult objects that concurrent calls are given
    given,           \* the objects as they were when the calls were made
    calls            \* each concurrent run_rules call: its object, position and locals

rule_vars == <<extraction, pristine, alerts, last_call, tables>>
extract_vars == <<raw_text, stage, sent, content, result>>
scrub_vars == <<original, scrub_text, rule_no, outputs>>
conc_vars == <<heap, given, calls>>
vars == <<extraction, pristine, alerts, last_call, tables,
          raw_text, stage, sent, content, result,
          original, scrub_text, rule_no, outputs,
          heap, given, calls>>

(***************************************************************************)
(* Python string primitives                                                *)
(***************************************************************************)
UpperLetters == "ABCDEFGHIJKLMNOPQRSTUVWXYZ"
LowerLetters == "abcdefghijklmnopqrstuvwxyz"

CharAt(s, i) == SubSeq(s, i, i)

\* the lower-case form of each upper-case letter
LowerOf ==
    [c \in {CharAt(UpperLetters, k) : k \in 1..26} |->
        CharAt(LowerLetters, CHOOSE k \in 1..26 : CharAt(UpperLetters, k) = c)]

\* str.lower() on one character
LowerChar(c) == IF c \in DOMAIN LowerOf THEN LowerOf[c] ELSE c

\* str.lower()
RECURSIVE Lower(_)
Lower(s) ==
    IF Len(s) = 0 THEN ""
    ELSE IF Len(s) = 1 THEN LowerChar(s)
    ELSE LET half == Len(s) \div 2
         IN  Lower(SubSeq(s, 1, half)) \o Lower(SubSeq(s, half + 1, Len(s)))

\* sep.join(list)
RECURSIVE Join(_, _)
Join(sep, list) ==
    IF Len(list) = 0 THEN ""
    ELSE IF Len(list) = 1 THEN list[1]
    ELSE list[1] \o sep \o Join(sep, Tail(list))

\* needle in hay  (substring containment)
Contains(hay, needle) ==
    \E i \in 1..(Len(hay) - Len(needle) + 1) :
        SubSeq(hay, i, i + Len(needle) - 1) = needle

\* any(term in text for term in terms)
AnyTermIn(terms, text) == \E k \in 1..Len(terms) : Contains(text, terms[k])

(***************************************************************************)
(* Drawing inputs: the entries of pool at the indices picked, in pool      *)
(* order, and all such selections of at most max entries.                  *)
(***************************************************************************)
RECURSIVE InOrder(_, _)
InOrder(pool, picked) ==
    IF picked = {} THEN <<>>
    ELSE LET k == CHOOSE x \in picked : \A y \in picked : x <= y
         IN  <<pool[k]>> \o InOrder(pool, picked \ {k})

Selections(pool, max) ==
    {InOrder(pool, picked) :
        picked \in {P \in SUBSET (1..Len(pool)) : Cardinality(P) <= max}}

(***************************************************************************)
(* schemas.py                                                              *)
(***************************************************************************)
None == "None"

Actions == {"start", "stop", "increase", "decrease", "continue"}

MedicationChange(name, action, dose) ==
    [name |-> name, action |-> action, dose |-> dose]

FollowUpItem(type, when, location) ==
    [type |-> type, when |-> when, location |-> location]

RuleAlert(code, severity, message, suggested_question) ==
    [code |-> code, severity |-> severity, message |-> message,
     suggested_question |-> suggested_question]

(***************************************************************************)
(* Python re: the character classes and the five patterns of               *)
(* deidentify_text.  MatchEnd(rule, text, i) is the index of the last      *)
(* character of the match the pattern finds starting at index i, or 0 when *)
(* it finds none there.                                                    *)
(***************************************************************************)
Digits == {"0", "1", "2", "3", "4", "5", "6", "7", "8", "9"}

IsDigit(c) == c \in Digits                                   \* \d
IsUpper(c) == c \in DOMAIN LowerOf                            \* [A-Z]
IsLetter(c) == LowerChar(c) \in {CharAt(LowerLetters, k) : k \in 1..26}
IsSpace(c) == c \in {" ", "\t", "\n", "\r", "\f"}            \* \s
IsWord(c) == IsDigit(c) \/ IsLetter(c) \/ c = "_"            \* \w

\* \b between index i-1 and index i of text
Boundary(text, i) ==
    LET before == i > 1 /\ i - 1 <= Len(text) /\ IsWord(CharAt(text, i - 1))
        after == i >= 1 /\ i <= Len(text) /\ IsWord(CharAt(text, i))
    IN  before # after

\* the first index from i on whose character is not white space (\s* is greedy)
RECURSIVE SkipSpace(_, _)
SkipSpace(text, i) ==
    IF i <= Len(text) /\ IsSpace(CharAt(text, i)) THEN SkipSpace(text, i + 1) ELSE i

\* the first index from i on whose character is a newline (. matches all but \n)
RECURSIVE SkipLine(_, _)
SkipLine(text, i) ==
    IF i <= Len(text) /\ CharAt(text, i) # "\n" THEN SkipLine(text, i + 1) ELSE i

\* text[i .. i+n-1] exists and is all digits
DigitsAt(text, i, n) ==
    i + n - 1 <= Len(text) /\ \A k \in i..(i + n - 1) : IsDigit(CharAt(text, k))

\* text[i .. i+n-1] exists and is all upper-case letters
UppersAt(text, i, n) ==
    i + n - 1 <= Len(text) /\ \A k \in i..(i + n - 1) : IsUpper(CharAt(text, k))

\* (?i)name:\s*.*   and   (?i)dob:\s*.*
LabelMatchEnd(label, text, i) ==
    IF i + Len(label) - 1 <= Len(text) /\ Lower(SubSeq(text, i, i + Len(label) - 1)) = label
    THEN SkipLine(text, SkipSpace(text, i + Len(label))) - 1
    ELSE 0

\* \b\d{3}\s?\d{3}\s?\d{4}\b
NhsMatchEnd(text, i) ==
    IF Boundary(text, i) /\ DigitsAt(text, i, 3)
    THEN LET j == IF i + 3 <= Len(text) /\ IsSpace(CharAt(text, i + 3)) THEN i + 4 ELSE i + 3
         IN  IF DigitsAt(text, j, 3)
             THEN LET k == IF j + 3 <= Len(text) /\ IsSpace(CharAt(text, j + 3))
                           THEN j + 4 ELSE j + 3
                  IN  IF DigitsAt(text, k, 4) /\ Boundary(text, k + 4) THEN k + 3 ELSE 0
             ELSE 0
    ELSE 0

\* \s*\d[A-Z]{2}\b from index j: the end of the postcode pattern
PostcodeTail(text, j) ==
    LET k == SkipSpace(text, j)
    IN  IF DigitsAt(text, k, 1) /\ UppersAt(text, k + 1, 2) /\ Boundary(text, k + 3)
        THEN k + 2 ELSE 0

\* [A-Z]{n}\d[A-Z0-9]? then the tail, the optional character tried first
PostcodeFrom(text, i, n) ==
    IF UppersAt(text, i, n) /\ DigitsAt(text, i + n, 1)
    THEN LET x == i + n + 1
             taken == IF x <= Len(text) /\ (IsUpper(CharAt(text, x)) \/ IsDigit(CharAt(text, x)))
                      THEN PostcodeTail(text, x + 1) ELSE 0
         IN  IF taken > 0 THEN taken ELSE PostcodeTail(text, x)
    ELSE 0

\* \b[A-Z]{1,2}\d[A-Z0-9]?\s*\d[A-Z]{2}\b, two letters tried before one
PostcodeMatchEnd(text, i) ==
    IF Boundary(text, i)
    THEN IF PostcodeFrom(text, i, 2) > 0 THEN PostcodeFrom(text, i, 2)
         ELSE PostcodeFrom(text, i, 1)
    ELSE 0

\* \b0\d{9,10}\b, ten digits tried before nine
PhoneMatchEnd(text, i) ==
    IF Boundary(text, i) /\ i <= Len(text) /\ CharAt(text, i) = "0"
    THEN IF DigitsAt(text, i + 1, 10) /\ Boundary(text, i + 11) THEN i + 10
         ELSE IF DigitsAt(text, i + 1, 9) /\ Boundary(text, i + 10) THEN i + 9
         ELSE 0
    ELSE 0

MatchEnd(rule, text, i) ==
    CASE rule = "name" -> LabelMatchEnd("name:", text, i)
      [] rule = "dob" -> LabelMatchEnd("dob:", text, i)
      [] rule = "nhs" -> NhsMatchEnd(text, i)
      [] rule = "postcode" -> PostcodeMatchEnd(text, i)
      [] rule = "phone" -> PhoneMatchEnd(text, i)

\* re.sub(pattern, repl, text) from index i on: leftmost, non-overlapping matches
RECURSIVE ReSub(_, _, _, _)
ReSub(rule, repl, text, i) ==
    IF i > Len(text) THEN ""
    ELSE LET e == MatchEnd(rule, text, i)
         IN  IF e >= i
             THEN repl \o ReSub(rule, repl, text, e + 1)
             ELSE CharAt(text, i) \o ReSub(rule, repl, text, i + 1)

(***************************************************************************)
(* extractor.py: deidentify_text                                           *)
(***************************************************************************)
\* a replacement that keeps the shape of the number, digits masked
Replacement_MaskedDigits(rule) ==
    CASE rule = "name" -> "Name: <<PATIENT_NAME>>"
      [] rule = "dob" -> "DOB: <<DOB>>"
      [] rule = "nhs" -> "<<000 000 0000>>"
      [] rule = "postcode" -> "<<POSTCODE>>"
      [] rule = "phone" -> "<<PHONE_NUMBER>>"

\* the second argument of each re.sub
Replacement(rule) ==
    CASE rule = "name" -> "Name: <<PATIENT_NAME>>"
      [] rule = "dob" -> "DOB: <<DOB>>"
      [] rule = "nhs" -> "<<NHS_NUMBER>>"
      [] rule = "postcode" -> "<<POSTCODE>>"
      [] rule = "phone" -> "<<PHONE_NUMBER>>"

\* the five re.sub lines in the order they are written
ScrubOrder == <<"name", "dob", "nhs", "postcode", "phone">>

\* text = re.sub(pattern, replacement, text) for one rule
Sub(rule, text) == ReSub(rule, Replacement(rule), text, 1)

deidentify_text(text) ==
    LET t1 == Sub("name", text)
        t2 == Sub("dob", t1)
        t3 == Sub("nhs", t2)
        t4 == Sub("postcode", t3)
        t5 == Sub("phone", t4)
    IN  t5

(***************************************************************************)
(* JSON.  A parsed value carries its type: a string, null, a list of       *)
(* values, or an object given by its <<key, value>> pairs in text order.   *)
(* Dumps writes a value as json.dumps does; json_loads reads back the      *)
(* texts of the documents of JsonDocs and rejects every other text.        *)
(***************************************************************************)
JStr(s) == [t |-> "str", v |-> s]
JNull == [t |-> "null", v |-> None]
JList(items) == [t |-> "list", v |-> items]
JObj(pairs) == [t |-> "obj", v |-> pairs]

RECURSIVE Dumps(_)
RECURSIVE DumpsItems(_, _)
Dumps(x) ==
    CASE x.t = "str" -> "\"" \o x.v \o "\""
      [] x.t = "null" -> "null"
      [] x.t = "list" -> "[" \o DumpsItems(x.v, FALSE) \o "]"
      [] x.t = "obj" -> "{" \o DumpsItems(x.v, TRUE) \o "}"
DumpsItems(items, keyed) ==
    IF Len(items) = 0 THEN ""
    ELSE LET one == IF keyed THEN "\"" \o items[1][1] \o "\": " \o Dumps(items[1][2])
                    ELSE Dumps(items[1])
         IN  IF Len(items) = 1 THEN one
             ELSE one \o ", " \o DumpsItems(Tail(items), keyed)

\* dict access on an object's pairs
HasKey(pairs, key) == \E i \in 1..Len(pairs) : pairs[i][1] = key
Get(pairs, key) ==
    pairs[CHOOSE i \in 1..Len(pairs) :
            /\ pairs[i][1] = key
            /\ \A j \in (i + 1)..Len(pairs) : pairs[j][1] # key][2]

\* str.strip()
RECURSIVE Strip(_)
Strip(s) ==
    IF Len(s) = 0 THEN s
    ELSE IF IsSpace(CharAt(s, 1)) THEN Strip(SubSeq(s, 2, Len(s)))
    ELSE IF IsSpace(CharAt(s, Len(s))) THEN Strip(SubSeq(s, 1, Len(s) - 1))
    ELSE s

\* str.strip(c) for a one-character c
RECURSIVE StripChar(_, _)
StripChar(s, c) ==
    IF Len(s) = 0 THEN s
    ELSE IF CharAt(s, 1) = c THEN StripChar(SubSeq(s, 2, Len(s)), c)
    ELSE IF CharAt(s, Len(s)) = c THEN StripChar(SubSeq(s, 1, Len(s) - 1), c)
    ELSE s

\* The backtick cannot be written in a TLA+ string: the apostrophe, which no
\* other text of the model holds, stands for it.
Backtick == "'"
Fence == Backtick \o Backtick \o Backtick

\* str.startswith(prefix)
StartsWith(s, prefix) ==
    Len(prefix) <= Len(s) /\ SubSeq(s, 1, Len(prefix)) = prefix

(***************************************************************************)
(* The documents the language-model service may reply with.                *)
(***************************************************************************)
Keys ==
    <<"diagnoses", "procedures", "medication_changes", "follow_up",
      "pending_tests", "red_flags">>

\* a well-shaped value for each of the six fields
SamplePairs ==
    <<<<"diagnoses", JList(<<JStr("NSTEMI (ACS)"), JStr("Heart Failure")>>)>>,
      <<"procedures", JList(<<JStr("Coronary angioplasty")>>)>>,
      <<"medication_changes",
        JList(<<JObj(<<<<"name", JStr("Apixaban")>>, <<"action", JStr("stop")>>>>),
                JObj(<<<<"name", JStr("Bisoprolol")>>, <<"action", JStr("start")>>,
                       <<"dose", JStr("2.5mg")>>>>)>>)>>,
      <<"follow_up",
        JList(<<JObj(<<<<"type", JStr("Cardiology clinic")>>, <<"when", JStr("6 weeks")>>,
                       <<"location", JNull>>>>)>>)>>,
      <<"pending_tests", JList(<<>>)>>,
      <<"red_flags", JList(<<JStr("Chest pain: call 999")>>)>>>>

\* the objects that supply any subset of the six fields, each well-shaped
PartialDocs == {JObj(InOrder(SamplePairs, picked)) : picked \in SUBSET (1..6)}

\* values that are not an object of the schema's shape
IllShapedDocs ==
    {JList(<<>>),
     JNull,
     JStr("NSTEMI"),
     JObj(<<<<"diagnoses", JNull>>>>),
     JObj(<<<<"diagnoses", JStr("NSTEMI")>>>>),
     JObj(<<<<"medication_changes", JList(<<JObj(<<<<"name", JStr("Apixaban")>>>>)>>)>>>>),
     JObj(<<<<"medication_changes", JList(<<JObj(<<<<"action", JStr("stop")>>>>)>>)>>>>),
     JObj(<<<<"medication_changes",
             JList(<<JObj(<<<<"name", JStr("Apixaban")>>, <<"action", JStr("pause")>>>>)>>)>>>>)}

JsonDocs == PartialDocs \cup IllShapedDocs

\* the text of each document
JsonTexts == [d \in JsonDocs |-> Dumps(d)]

\* the text of the object that supplies exactly the fields picked
PartialTexts == [picked \in SUBSET (1..6) |-> Dumps(JObj(InOrder(SamplePairs, picked)))]

FullDocText == PartialTexts[1..6]

\* text between a leading and a trailing code fence, tag after the leading one
Fenced(tag, text) == Fence \o tag \o "\n" \o text \o "\n" \o Fence

\* the language tags a fence comes with ("" for none), and the objects fenced
LanguageTags == {"", "json", "JSON", "javascript"}
FencedPicks == {1..6, {3, 6}}

\* texts that are not the serialization of any value
MalformedTexts == {"Here is the JSON: " \o FullDocText, "{\"diagnoses\": [", ""}

\* the replies: each document's text as it is, and some texts around the full document
Replies ==
    {JsonTexts[d] : d \in JsonDocs}
    \cup {Fenced(tag, PartialTexts[picked]) : tag \in LanguageTags, picked \in FencedPicks}
    \cup {" " \o FullDocText \o "\n"}
    \cup MalformedTexts

(***************************************************************************)
(* extractor.py: extract_structured, from the reply on                     *)
(***************************************************************************)
\* json.loads succeeds on text
Decodes(text) == \E d \in JsonDocs : JsonTexts[d] = Strip(text)

\* json.loads(text), for a text it succeeds on
json_loads(text) == CHOOSE d \in JsonDocs : JsonTexts[d] = Strip(text)

\* content.strip(), then the code-fence wrapper stripped if present
Unfenced(reply) ==
    LET stripped == Strip(reply)
    IN  IF StartsWith(stripped, Fence)
        THEN LET inner == StripChar(stripped, Backtick)
             IN  IF StartsWith(Lower(inner), "json")
                 THEN Strip(SubSeq(inner, 5, Len(inner)))
                 ELSE inner
        ELSE stripped

\* data[key] = [] in place of data.setdefault(key, [])
setdefault_Overwrite(pairs, key) == Append(pairs, <<key, JList(<<>>)>>)

\* data.setdefault(key, [])
setdefault(pairs, key) ==
    IF HasKey(pairs, key) THEN pairs ELSE Append(pairs, <<key, JList(<<>>)>>)

\* for key in [...six keys...]: data.setdefault(key, [])
RECURSIVE SetDefaults(_, _)
SetDefaults(pairs, k) ==
    IF k > Len(Keys) THEN pairs
    ELSE SetDefaults(setdefault(pairs, Keys[k]), k + 1)

\* pydantic: a field of type str, and one of type Optional[str] = None
IsRequiredStr(pairs, key) == HasKey(pairs, key) /\ Get(pairs, key).t = "str"
IsOptionalStr(pairs, key) == HasKey(pairs, key) => Get(pairs, key).t \in {"str", "null"}
OptionalStr(pairs, key) ==
    IF HasKey(pairs, key) /\ Get(pairs, key).t = "str" THEN Get(pairs, key).v ELSE None

\* pydantic: List[str]
IsStrList(x) == x.t = "list" /\ \A i \in 1..Len(x.v) : x.v[i].t = "str"
StrList(x) == [i \in 1..Len(x.v) |-> x.v[i].v]

\* pydantic: MedicationChange
IsMedicationChange(x) ==
    /\ x.t = "obj"
    /\ IsRequiredStr(x.v, "name")
    /\ IsRequiredStr(x.v, "action") /\ Get(x.v, "action").v \in Actions
    /\ IsOptionalStr(x.v, "dose")
ToMedicationChange(x) ==
    MedicationChange(Get(x.v, "name").v, Get(x.v, "action").v, OptionalStr(x.v, "dose"))

\* pydantic: FollowUpItem
IsFollowUpItem(x) ==
    /\ x.t = "obj"
    /\ IsRequiredStr(x.v, "type")
    /\ IsRequiredStr(x.v, "when")
    /\ IsOptionalStr(x.v, "location")
ToFollowUpItem(x) ==
    FollowUpItem(Get(x.v, "type").v, Get(x.v, "when").v, OptionalStr(x.v, "location"))

\* pydantic: ExtractionResult(**data) validates
IsExtractionResult(pairs) ==
    /\ \A k \in 1..Len(Keys) : HasKey(pairs, Keys[k])
    /\ IsStrList(Get(pairs, "diagnoses"))
    /\ IsStrList(Get(pairs, "procedures"))
    /\ Get(pairs, "medication_changes").t = "list"
    /\ \A i \in 1..Len(Get(pairs, "medication_changes").v) :
          IsMedicationChange(Get(pairs, "medication_changes").v[i])
    /\ Get(pairs, "follow_up").t = "list"
    /\ \A i \in 1..Len(Get(pairs, "follow_up").v) :
          IsFollowUpItem(Get(pairs, "follow_up").v[i])
    /\ IsStrList(Get(pairs, "pending_tests"))
    /\ IsStrList(Get(pairs, "red_flags"))

\* ExtractionResult(**data)
ExtractionResult(pairs) ==
    [diagnoses |-> StrList(Get(pairs, "diagnoses")),
     procedures |-> StrList(Get(pairs, "procedures")),
     medication_changes |->
        [i \in 1..Len(Get(pairs, "medication_changes").v) |->
            ToMedicationChange(Get(pairs, "medication_changes").v[i])],
     follow_up |->
        [i \in 1..Len(Get(pairs, "follow_up").v) |->
            ToFollowUpItem(Get(pairs, "follow_up").v[i])],
     pending_tests |-> StrList(Get(pairs, "pending_tests")),
     red_flags |-> StrList(Get(pairs, "red_flags"))]

NoResult == [kind |-> "none", value |-> None, error |-> None, message_raw |-> None]
Returned(value) == [kind |-> "return", value |-> value, error |-> None, message_raw |-> None]
Raised(error, message_raw) ==
    [kind |-> "raise", value |-> None, error |-> error, message_raw |-> message_raw]

\* the outcome of extract_structured once the service replied with reply
Normalize(reply) ==
    LET text == Unfenced(reply)
    IN  IF ~Decodes(text) THEN Raised("ValueError", text)
        ELSE LET data == json_loads(text)
             IN  IF data.t # "obj" THEN Raised("AttributeError", None)
                 ELSE LET filled == SetDefaults(data.v, 1)
                      IN  IF IsExtractionResult(filled)
                          THEN Returned(ExtractionResult(filled))
                          ELSE Raised("ValidationError", None)

(***************************************************************************)
(* rules_engine.py                                                         *)
(***************************************************************************)
ANTICOAGULANTS == <<"apixaban", "rivaroxaban", "edoxaban", "dabigatran", "warfarin">>

ACE_ARB_ARNI ==
    <<"ramipril", "lisinopril", "perindopril", "enalapril",
      "losartan", "candesartan", "valsartan", "sacubitril">>

BETA_BLOCKERS == <<"bisoprolol", "carvedilol", "metoprolol", "nebivolol">>

STATINS == <<"atorvastatin", "rosuvastatin", "simvastatin", "pravastatin">>

\* the four lists as the module holds them once imported
DrugTables ==
    [ANTICOAGULANTS |-> ANTICOAGULANTS, ACE_ARB_ARNI |-> ACE_ARB_ARNI,
     BETA_BLOCKERS |-> BETA_BLOCKERS, STATINS |-> STATINS]

\* the list rebuilt from lower-cased names and the actions, doses left out
lower_meds_Rebuilt(meds) ==
    [i \in 1..Len(meds) |-> MedicationChange(Lower(meds[i].name), meds[i].action, None)]

\* for m in meds: m.name = m.name.lower()
lower_meds(meds) ==
    [i \in 1..Len(meds) |-> [meds[i] EXCEPT !.name = Lower(@)]]

\* any(any(drug in m.name for drug in drugs) for m in meds)
AnyMedIn(meds, drugs) ==
    \E i \in 1..Len(meds) : AnyTermIn(drugs, meds[i].name)

AF_AC_STOPPED ==
    RuleAlert("AF_AC_STOPPED", "critical",
        "Anticoagulant appears to have been stopped in a patient with atrial fibrillation. This may increase stroke risk and should be reviewed urgently.",
        "My blood thinner seems to have been stopped even though I have atrial fibrillation. Is this safe?")

MI_NO_CARDIO_FU ==
    RuleAlert("MI_NO_CARDIO_FU", "warning",
        "A heart attack / ACS is documented but no cardiology clinic follow-up was found.",
        "Should I have a follow-up appointment with a cardiologist?")

MI_NO_STATIN ==
    RuleAlert("MI_NO_STATIN", "warning",
        "A heart attack / ACS is documented but no statin medication was identified.",
        "Should I be on a statin to reduce my risk after a heart attack?")

HF_INCOMPLETE_THERAPY ==
    RuleAlert("HF_INCOMPLETE_THERAPY", "warning",
        "Heart failure is documented but guideline-standard medications (ACEi/ARB/ARNI and beta-blocker) are not clearly present.",
        "Are my heart failure medications complete?")

NO_REDFLAG_ADVICE ==
    RuleAlert("NO_REDFLAG_ADVICE", "info",
        "An acute illness is documented but no red-flag safety advice was identified.",
        "What symptoms mean I should seek urgent help?")

PCI_NO_DAPT_PLAN ==
    RuleAlert("PCI_NO_DAPT_PLAN", "info",
        "PCI / angioplasty is documented but no plan for DAPT duration or wound review was found.",
        "How long should I stay on both blood thinners after my stent?")

\* Rule 1 without the test of the action
Rule1_AnyAction(diagnoses_text, meds, tbl) ==
    IF Contains(diagnoses_text, "atrial fibrillation") \/ Contains(diagnoses_text, "af")
    THEN IF \E i \in 1..Len(meds) : AnyTermIn(tbl.ANTICOAGULANTS, meds[i].name)
         THEN <<AF_AC_STOPPED>> ELSE <<>>
    ELSE <<>>

\* Rule 1: AF + anticoagulant stopped
Rule1(diagnoses_text, meds, tbl) ==
    IF Contains(diagnoses_text, "atrial fibrillation") \/ Contains(diagnoses_text, "af")
    THEN LET stopped_thinner ==
                 SelectSeq(meds, LAMBDA m :
                     m.action = "stop" /\ AnyTermIn(tbl.ANTICOAGULANTS, m.name))
         IN  IF Len(stopped_thinner) > 0 THEN <<AF_AC_STOPPED>> ELSE <<>>
    ELSE <<>>

\* Rule 2 comparing the follow-up type as written, not lower-cased
Rule2_CaseSensitive(follow_up) ==
    IF ~ \E i \in 1..Len(follow_up) : Contains(follow_up[i].type, "cardio")
    THEN <<MI_NO_CARDIO_FU>> ELSE <<>>

\* Rule 2: MI/ACS + no cardiology follow-up (the first check of the MI/ACS branch)
Rule2(follow_up) ==
    LET has_fu == \E i \in 1..Len(follow_up) :
                      Contains(Lower(follow_up[i].type), "cardio")
    IN  IF ~has_fu THEN <<MI_NO_CARDIO_FU>> ELSE <<>>

\* Rule 3: MI + no statin (the second check of the MI/ACS branch)
Rule3(meds, tbl) ==
    LET has_statin == AnyMedIn(meds, tbl.STATINS)
    IN  IF ~has_statin THEN <<MI_NO_STATIN>> ELSE <<>>

\* the MI/ACS branch with the statin check nested under the missing follow-up
Rule23_StatinUnderNoFu(diagnoses_text, meds, follow_up, tbl) ==
    IF AnyTermIn(<<"mi", "myocardial infarction", "acs">>, diagnoses_text)
    THEN IF Rule2(follow_up) # <<>>
         THEN Rule2(follow_up) \o Rule3(meds, tbl)
         ELSE <<>>
    ELSE <<>>

\* the MI/ACS branch with the statin check placed before the follow-up check
Rule23_StatinFirst(diagnoses_text, meds, follow_up, tbl) ==
    IF AnyTermIn(<<"mi", "myocardial infarction", "acs">>, diagnoses_text)
    THEN Rule3(meds, tbl) \o Rule2(follow_up)
    ELSE <<>>

\* the MI/ACS branch holding rules 2 and 3
Rule23(diagnoses_text, meds, follow_up, tbl) ==
    IF AnyTermIn(<<"mi", "myocardial infarction", "acs">>, diagnoses_text)
    THEN Rule2(follow_up) \o Rule3(meds, tbl)
    ELSE <<>>

\* Rule 4 satisfied by either drug class alone
Rule4_EitherClass(diagnoses_text, meds, tbl) ==
    IF Contains(diagnoses_text, "heart failure") \/ Contains(diagnoses_text, "hf")
    THEN IF ~(AnyMedIn(meds, tbl.ACE_ARB_ARNI) \/ AnyMedIn(meds, tbl.BETA_BLOCKERS))
         THEN <<HF_INCOMPLETE_THERAPY>> ELSE <<>>
    ELSE <<>>

\* Rule 4: HF + incomplete therapy
Rule4(diagnoses_text, meds, tbl) ==
    IF Contains(diagnoses_text, "heart failure") \/ Contains(diagnoses_text, "hf")
    THEN LET has_ace_arb_arni == AnyMedIn(meds, tbl.ACE_ARB_ARNI)
             has_beta_blocker == AnyMedIn(meds, tbl.BETA_BLOCKERS)
         IN  IF ~(has_ace_arb_arni /\ has_beta_blocker)
             THEN <<HF_INCOMPLETE_THERAPY>> ELSE <<>>
    ELSE <<>>

acute_terms ==
    <<"mi", "myocardial infarction", "hf", "heart failure",
      "pneumonia", "pulmonary embolism", "stroke", "tia">>

\* Rule 5 with the acute-term list cut down to the MI and HF terms
Rule5_MiHfOnly(diagnoses_text, red_flags) ==
    IF AnyTermIn(<<"mi", "myocardial infarction", "hf", "heart failure">>, diagnoses_text)
       /\ Len(red_flags) = 0
    THEN <<NO_REDFLAG_ADVICE>> ELSE <<>>

\* Rule 5: acute diagnosis but no red-flag advice
Rule5(diagnoses_text, red_flags) ==
    IF AnyTermIn(acute_terms, diagnoses_text) /\ Len(red_flags) = 0
    THEN <<NO_REDFLAG_ADVICE>> ELSE <<>>

\* Rule 6 looking at the first follow-up item only
Rule6_FirstFollowUpOnly(procedures_text, follow_up) ==
    IF AnyTermIn(<<"pci", "angioplasty">>, procedures_text)
    THEN IF ~ ( /\ Len(follow_up) > 0
               /\ AnyTermIn(<<"wound", "stent", "site", "dapt", "dual antiplatelet">>,
                            Lower(follow_up[1].type)) )
         THEN <<PCI_NO_DAPT_PLAN>> ELSE <<>>
    ELSE <<>>

\* Rule 6: PCI but no DAPT / wound follow-up
Rule6(procedures_text, follow_up) ==
    IF AnyTermIn(<<"pci", "angioplasty">>, procedures_text)
    THEN LET has_dapt_or_wound_fu ==
                 \E i \in 1..Len(follow_up) :
                     AnyTermIn(<<"wound", "stent", "site", "dapt", "dual antiplatelet">>,
                               Lower(follow_up[i].type))
         IN  IF ~has_dapt_or_wound_fu THEN <<PCI_NO_DAPT_PLAN>> ELSE <<>>
    ELSE <<>>

\* run_rules matching the names as they were passed in, lower-casing them only in place
run_rules_RawNames(ext, tbl) ==
    LET diagnoses_text == Lower(Join(" ", ext.diagnoses))
        procedures_text == Lower(Join(" ", ext.procedures))
        meds == ext.medication_changes
    IN  Rule1(diagnoses_text, meds, tbl)
        \o Rule23(diagnoses_text, meds, ext.follow_up, tbl)
        \o Rule4(diagnoses_text, meds, tbl)
        \o Rule5(diagnoses_text, ext.red_flags)
        \o Rule6(procedures_text, ext.follow_up)

\* the list run_rules returns for the record ext, read with the tables tbl
run_rules(ext, tbl) ==
    LET diagnoses_text == Lower(Join(" ", ext.diagnoses))
        procedures_text == Lower(Join(" ", ext.procedures))
        meds == lower_meds(ext.medication_changes)
    IN  Rule1(diagnoses_text, meds, tbl)
        \o Rule23(diagnoses_text, meds, ext.follow_up, tbl)
        \o Rule4(diagnoses_text, meds, tbl)
        \o Rule5(diagnoses_text, ext.red_flags)
        \o Rule6(procedures_text, ext.follow_up)

\* the record as run_rules leaves it: medication names lower-cased in place
AfterRules(ext) ==
    [ext EXCEPT !.medication_changes = lower_meds(@)]

(***************************************************************************)
(* The records the engine is run on.  diagnoses and medication_changes are *)
(* selections of at most MaxDiagnoses / MaxMeds entries of their pools,    *)
(* kept in pool order; the other lists are drawn from the sets below.      *)
(***************************************************************************)
MaxDiagnoses == 3
MaxMeds == 2

DiagnosisPool ==
    <<"Atrial Fibrillation", "staff", "NSTEMI (ACS)", "Heart Failure", "Pneumonia">>

MedPool ==
    <<MedicationChange("Apixaban", "stop", None),
      MedicationChange("Rivaroxaban", "stop", "20mg"),
      MedicationChange("warfarin", "continue", "3mg"),
      MedicationChange("Atorvastatin", "stop", "80mg"),
      MedicationChange("Bisoprolol", "continue", None),
      MedicationChange("Ramipril", "continue", None),
      MedicationChange("Sacubitril/Valsartan", "start", None)>>

ProcedureLists == {<<>>, <<"Coronary angioplasty">>}

FollowUpLists ==
    {<<>>,
     <<FollowUpItem("Cardiology clinic", "6 weeks", None)>>,
     <<FollowUpItem("GP review", "2 weeks", "GP surgery"),
       FollowUpItem("Stent site review", "1 week", None)>>}

RedFlagLists == {<<>>, <<"Chest pain: call 999">>}

Records ==
    [diagnoses : Selections(DiagnosisPool, MaxDiagnoses),
     procedures : ProcedureLists,
     medication_changes : Selections(MedPool, MaxMeds),
     follow_up : FollowUpLists,
     pending_tests : {<<"Repeat ECHO">>},
     red_flags : RedFlagLists]

(***************************************************************************)
(* The engine as a state machine: a caller holds one record and calls      *)
(* run_rules on it, or on a fresh copy of the record as first built.       *)
(***************************************************************************)
\* no call of deidentify_text is followed step by step
ScrubIdle ==
    /\ original = ""
    /\ scrub_text = ""
    /\ rule_no = 0
    /\ outputs = <<>>

\* no concurrent calls are followed
ConcIdle ==
    /\ heap = <<>>
    /\ given = <<>>
    /\ calls = <<>>

Init ==
    /\ extraction \in Records
    /\ pristine = extraction
    /\ alerts = <<>>
    /\ last_call = "none"
    /\ tables = DrugTables
    /\ raw_text = ""
    /\ stage = "idle"
    /\ sent = {}
    /\ content = None
    /\ result = NoResult
    /\ ScrubIdle
    /\ ConcIdle

\* alerts = run_rules(extraction): the caller's own object, mutated by the call
Evaluate ==
    /\ alerts' = run_rules(extraction, tables)
    /\ extraction' = AfterRules(extraction)
    /\ last_call' = "same"
    /\ UNCHANGED <<pristine, tables>>
    /\ UNCHANGED extract_vars
    /\ UNCHANGED scrub_vars
    /\ UNCHANGED conc_vars

\* alerts = run_rules(copy.deepcopy(pristine)): the copy is dropped after the call
EvaluateCopy ==
    /\ alerts' = run_rules(pristine, tables)
    /\ last_call' = "copy"
    /\ UNCHANGED <<extraction, pristine, tables>>
    /\ UNCHANGED extract_vars
    /\ UNCHANGED scrub_vars
    /\ UNCHANGED conc_vars

Next == Evaluate \/ EvaluateCopy

Spec == Init /\ [][Next]_vars

(***************************************************************************)
(* The request handlers as a state machine: one request brings a letter,   *)
(* which extract_structured or the /summarize handler takes to the         *)
(* language-model service.  A letter is at most MaxLines lines of LinePool.*)
(***************************************************************************)
MaxLines == 2

LinePool ==
    <<"Name: John Smith", "DOB: 01/02/1950", "NHS 943 476 5919", "Home SW1A 1AA",
      "Tel 02079460123", "Dx: NSTEMI (ACS)", " ">>

Letters == {Join("\n", lines) : lines \in Selections(LinePool, MaxLines)}

Summaries == {"You had a heart attack. The doctors opened the blocked artery."}

InitExtract ==
    /\ raw_text \in Letters
    /\ stage = "idle"
    /\ sent = {}
    /\ content = None
    /\ result = NoResult
    /\ extraction = [diagnoses |-> <<>>, procedures |-> <<>>, medication_changes |-> <<>>,
                     follow_up |-> <<>>, pending_tests |-> <<>>, red_flags |-> <<>>]
    /\ pristine = extraction
    /\ alerts = <<>>
    /\ last_call = "none"
    /\ tables = DrugTables
    /\ ScrubIdle
    /\ ConcIdle

\* extract_structured(raw_text): scrub, one chat completion, the reply parsed
extract_structured ==
    /\ stage = "idle"
    /\ LET deid == deidentify_text(raw_text)
       IN  \E reply \in Replies :
             /\ sent' = sent \cup {[via |-> "extract_structured", model |-> "gpt-4o-mini",
                                    letter |-> deid]}
             /\ content' = reply
             /\ result' = Normalize(reply)
    /\ stage' = "done"
    /\ UNCHANGED raw_text
    /\ UNCHANGED rule_vars
    /\ UNCHANGED scrub_vars
    /\ UNCHANGED conc_vars

\* call_openai_chat(messages, model): RuntimeError before anything is posted
\* when OPENAI_API_KEY is not set, else the messages are posted as they came
call_openai_chat(via, model, letter, key_set, reply) ==
    IF ~key_set
    THEN /\ result' = Raised("RuntimeError", None)
         /\ UNCHANGED <<sent, content>>
    ELSE /\ sent' = sent \cup {[via |-> via, model |-> model, letter |-> letter]}
         /\ content' = reply
         /\ result' = Returned([summary |-> reply])

\* POST /summarize: 400 on blank text, else req.text goes into the prompt
summarize ==
    /\ stage = "idle"
    /\ IF Strip(raw_text) = ""
       THEN /\ result' = Raised("HTTPException 400", None)
            /\ UNCHANGED <<sent, content>>
       ELSE \E key_set \in BOOLEAN, reply \in Summaries :
               call_openai_chat("summarize", "gpt-4o", raw_text, key_set, reply)
    /\ stage' = "done"
    /\ UNCHANGED raw_text
    /\ UNCHANGED rule_vars
    /\ UNCHANGED scrub_vars
    /\ UNCHANGED conc_vars

NextExtract == extract_structured \/ summarize

SpecExtract == InitExtract /\ [][NextExtract]_vars

(***************************************************************************)
(* deidentify_text line by line: each step is one re.sub line, and a call   *)
(* that returned may be followed by a call on what it returned.            *)
(***************************************************************************)
MaxPasses == 2

ScrubLines ==
    <<"Name: John Smith", "DOB:", "NHS 943 476 5919", "SW1A 1AA", "sw1a 1aa",
      "Tel 0207946012", "Mob 07700900123", "Name: <<PATIENT_NAME>>",
      "<<NHS_NUMBER>> <<POSTCODE>>", "Dx: NSTEMI", "Surname: Smith">>

ScrubInputs == {Join("\n", lines) : lines \in Selections(ScrubLines, MaxLines)}

InitScrub ==
    /\ original \in ScrubInputs
    /\ scrub_text = original
    /\ rule_no = 0
    /\ outputs = <<>>
    /\ raw_text = ""
    /\ stage = "idle"
    /\ sent = {}
    /\ content = None
    /\ result = NoResult
    /\ extraction = [diagnoses |-> <<>>, procedures |-> <<>>, medication_changes |-> <<>>,
                     follow_up |-> <<>>, pending_tests |-> <<>>, red_flags |-> <<>>]
    /\ pristine = extraction
    /\ alerts = <<>>
    /\ last_call = "none"
    /\ tables = DrugTables
    /\ ConcIdle

\* one re.sub line of deidentify_text; the fifth is followed by return text
ScrubStep ==
    /\ Len(outputs) < MaxPasses
    /\ scrub_text' = Sub(ScrubOrder[rule_no + 1], scrub_text)
    /\ IF rule_no + 1 = Len(ScrubOrder)
       THEN /\ rule_no' = 0
            /\ outputs' = Append(outputs, scrub_text')
       ELSE /\ rule_no' = rule_no + 1
            /\ UNCHANGED outputs
    /\ UNCHANGED original
    /\ UNCHANGED rule_vars
    /\ UNCHANGED extract_vars
    /\ UNCHANGED conc_vars

NextScrub == ScrubStep

SpecScrub == InitScrub /\ [][NextScrub]_vars

(***************************************************************************)
(* Concurrent run_rules calls.  Each call goes through run_rules in steps:  *)
(* the two joined texts, then for each medication the read of m.name and    *)
(* the write of its lower-case form, then the rule checks in order, then    *)
(* the return.  The calls are given one object each or all the same object. *)
(***************************************************************************)
NumCalls == 2

Callers == 1..NumCalls

ConcRecords ==
    <<[diagnoses |-> <<"Atrial Fibrillation", "NSTEMI (ACS)">>,
       procedures |-> <<"Coronary angioplasty">>,
       medication_changes |-> <<MedicationChange("Apixaban", "stop", None),
                                MedicationChange("Atorvastatin", "continue", "80mg")>>,
       follow_up |-> <<>>, pending_tests |-> <<>>, red_flags |-> <<>>],
      [diagnoses |-> <<"Heart Failure">>,
       procedures |-> <<>>,
       medication_changes |-> <<MedicationChange("Bisoprolol", "continue", None),
                                MedicationChange("Ramipril", "continue", None)>>,
       follow_up |-> <<FollowUpItem("Cardiology clinic", "6 weeks", None)>>,
       pending_tests |-> <<>>, red_flags |-> <<"Chest pain: call 999">>],
      [diagnoses |-> <<"staff">>,
       procedures |-> <<>>,
       medication_changes |-> <<MedicationChange("warfarin", "stop", "3mg")>>,
       follow_up |-> <<>>, pending_tests |-> <<>>, red_flags |-> <<>>],
      [diagnoses |-> <<"Pneumonia">>,
       procedures |-> <<>>,
       medication_changes |-> <<>>,
       follow_up |-> <<>>, pending_tests |-> <<>>, red_flags |-> <<>>]>>

\* m.name.lower() with the lower-casing left out
lowered_Unchanged(name) == name

\* m.name.lower()
lowered(name) == Lower(name)

\* the rule checks in the order run_rules makes them, and what follows each
RuleSteps == <<"rule1", "rule23", "rule4", "rule5", "rule6">>

StepAfter(pc) ==
    CASE pc = "rule1" -> "rule23"
      [] pc = "rule23" -> "rule4"
      [] pc = "rule4" -> "rule5"
      [] pc = "rule5" -> "rule6"
      [] pc = "rule6" -> "return"

\* what the rule check at pc appends, reading the object obj as it is now
RuleCheck(pc, c, obj) ==
    CASE pc = "rule1" -> Rule1(c.diagnoses_text, obj.medication_changes, tables)
      [] pc = "rule23" ->
            Rule23(c.diagnoses_text, obj.medication_changes, obj.follow_up, tables)
      [] pc = "rule4" -> Rule4(c.diagnoses_text, obj.medication_changes, tables)
      [] pc = "rule5" -> Rule5(c.diagnoses_text, obj.red_flags)
      [] pc = "rule6" -> Rule6(c.procedures_text, obj.follow_up)

InitConc ==
    /\ \E first \in 1..Len(ConcRecords) :
          heap = [o \in Callers |-> ConcRecords[((first + o - 2) % Len(ConcRecords)) + 1]]
    /\ given = heap
    /\ \E same \in BOOLEAN :
          calls = [p \in Callers |->
                      [ref |-> IF same THEN 1 ELSE p, pc |-> "texts", i |-> 1, name |-> None,
                       diagnoses_text |-> None, procedures_text |-> None,
                       alerts |-> <<>>, returned |-> None]]
    /\ extraction = [diagnoses |-> <<>>, procedures |-> <<>>, medication_changes |-> <<>>,
                     follow_up |-> <<>>, pending_tests |-> <<>>, red_flags |-> <<>>]
    /\ pristine = extraction
    /\ alerts = <<>>
    /\ last_call = "none"
    /\ tables = DrugTables
    /\ raw_text = ""
    /\ stage = "idle"
    /\ sent = {}
    /\ content = None
    /\ result = NoResult
    /\ ScrubIdle

\* a step of a concurrent call touches nothing but the objects and the calls
ConcFrame ==
    /\ UNCHANGED rule_vars
    /\ UNCHANGED extract_vars
    /\ UNCHANGED scrub_vars

\* diagnoses_text = ...; procedures_text = ...; then _lower_meds is entered
JoinTexts(p) ==
    /\ calls[p].pc = "texts"
    /\ calls' = [calls EXCEPT ![p].diagnoses_text = Lower(Join(" ", heap[calls[p].ref].diagnoses)),
                              ![p].procedures_text = Lower(Join(" ", heap[calls[p].ref].procedures)),
                              ![p].pc = "read"]
    /\ UNCHANGED <<heap, given>>
    /\ ConcFrame

\* for m in meds: the right-hand side m.name.lower(), or the loop's end
ReadName(p) ==
    /\ calls[p].pc = "read"
    /\ LET meds == heap[calls[p].ref].medication_changes
       IN  IF calls[p].i <= Len(meds)
           THEN calls' = [calls EXCEPT ![p].name = lowered(meds[calls[p].i].name),
                                       ![p].pc = "write"]
           ELSE calls' = [calls EXCEPT ![p].pc = "rule1"]
    /\ UNCHANGED <<heap, given>>
    /\ ConcFrame

\* m.name = <the value computed>
WriteName(p) ==
    /\ calls[p].pc = "write"
    /\ heap' = [heap EXCEPT ![calls[p].ref].medication_changes[calls[p].i].name = calls[p].name]
    /\ calls' = [calls EXCEPT ![p].i = @ + 1, ![p].pc = "read"]
    /\ UNCHANGED given
    /\ ConcFrame

\* one rule check: its condition read from the object, its alert appended
CheckRule(p) ==
    /\ calls[p].pc \in {RuleSteps[k] : k \in 1..Len(RuleSteps)}
    /\ calls' = [calls EXCEPT
                    ![p].alerts = @ \o RuleCheck(calls[p].pc, calls[p], heap[calls[p].ref]),
                    ![p].pc = StepAfter(calls[p].pc)]
    /\ UNCHANGED <<heap, given>>
    /\ ConcFrame

\* return alerts
Return(p) ==
    /\ calls[p].pc = "return"
    /\ calls' = [calls EXCEPT ![p].returned = calls[p].alerts, ![p].pc = "done"]
    /\ UNCHANGED <<heap, given>>
    /\ ConcFrame

NextConc ==
    \/ \E p \in Callers : JoinTexts(p)
    \/ \E p \in Callers : ReadName(p)
    \/ \E p \in Callers : WriteName(p)
    \/ \E p \in Callers : CheckRule(p)
    \/ \E p \in Callers : Return(p)

SpecConc == InitConc /\ [][NextConc]_vars

(***************************************************************************)
(* Vocabulary of the properties below.  The input of the calls made so far *)
(* is the record as first built (pristine); Called says a call returned.   *)
(***************************************************************************)
Called == last_call # "none"

InputDiagnosesText == Lower(Join(" ", pristine.diagnoses))
InputProceduresText == Lower(Join(" ", pristine.procedures))
InputMeds == {pristine.medication_changes[i] : i \in 1..Len(pristine.medication_changes)}
InputFollowUpTypes == {pristine.follow_up[i].type : i \in 1..Len(pristine.follow_up)}

SaysAny(text, words) == \E w \in words : Contains(text, w)

NamesAny(med, drugs) == SaysAny(Lower(med.name), drugs)

AlertsWith(code) == {i \in 1..Len(alerts) : alerts[i].code = code}

Codes(list) == [i \in 1..Len(list) |-> list[i].code]

TriggerAF(dt) == SaysAny(dt, {"atrial fibrillation", "af"})
TriggerMI(dt) == SaysAny(dt, {"mi", "myocardial infarction", "acs"})
TriggerHF(dt) == SaysAny(dt, {"heart failure", "hf"})
TriggerAcute(dt) ==
    SaysAny(dt, {"mi", "myocardial infarction", "hf", "heart failure",
                 "pneumonia", "pulmonary embolism", "stroke", "tia"})
TriggerPCI(pt) == SaysAny(pt, {"pci", "angioplasty"})

\* the condition each rule's alert is stated to stand for; dt and pt are the
\* lower-cased, space-joined diagnoses and procedures of the input
Expect1(dt) ==
    /\ TriggerAF(dt)
    /\ \E m \in InputMeds :
          /\ m.action = "stop"
          /\ NamesAny(m, {"apixaban", "rivaroxaban", "edoxaban", "dabigatran", "warfarin"})
Expect2(dt) ==
    /\ TriggerMI(dt)
    /\ ~ \E t \in InputFollowUpTypes : Contains(Lower(t), "cardio")
Expect3(dt) ==
    /\ TriggerMI(dt)
    /\ ~ \E m \in InputMeds :
            NamesAny(m, {"atorvastatin", "rosuvastatin", "simvastatin", "pravastatin"})
Expect4(dt) ==
    /\ TriggerHF(dt)
    /\ ~ ( /\ \E m \in InputMeds :
                  NamesAny(m, {"ramipril", "lisinopril", "perindopril", "enalapril",
                               "losartan", "candesartan", "valsartan", "sacubitril"})
           /\ \E m \in InputMeds :
                  NamesAny(m, {"bisoprolol", "carvedilol", "metoprolol", "nebivolol"}) )
Expect5(dt) == TriggerAcute(dt) /\ Len(pristine.red_flags) = 0
Expect6(pt) ==
    /\ TriggerPCI(pt)
    /\ ~ \E t \in InputFollowUpTypes :
            SaysAny(Lower(t), {"wound", "stent", "site", "dapt", "dual antiplatelet"})

\* C1: every request issued to the language-model service carries the letter as
\* deidentify_text leaves it, on the extract_structured path and on the
\* /summarize path alike.
C1_ScrubbedBeforeSent ==
    \A m \in sent : m.letter = deidentify_text(raw_text)

\* the part of C1 that concerns extract_structured alone
C1_ExtractorScrubs ==
    \A m \in sent : m.via = "extract_structured" => m.letter = deidentify_text(raw_text)

FixedOrder ==
    <<"AF_AC_STOPPED", "MI_NO_CARDIO_FU", "MI_NO_STATIN",
      "HF_INCOMPLETE_THERAPY", "NO_REDFLAG_ADVICE", "PCI_NO_DAPT_PLAN">>

\* s is a subsequence of t (whose entries are distinct) in which no entry repeats:
\* every entry of s is an entry of t, and the entries of s stand in t's order
IsSubsequenceNoRepeat(s, t) ==
    /\ \A i \in 1..Len(s) : \E k \in 1..Len(t) : t[k] = s[i]
    /\ \A i, j \in 1..Len(s) :
          i < j => \E k, l \in 1..Len(t) : k < l /\ t[k] = s[i] /\ t[l] = s[j]

\* C2: the codes of the returned list are a subsequence, without repetition, of
\* the fixed rule order; the list is empty when no rule's trigger holds and is
\* the six codes in order when all six hold.
C2_FixedOrder ==
    Called =>
        LET dt == InputDiagnosesText
            pt == InputProceduresText
            e == <<Expect1(dt), Expect2(dt), Expect3(dt), Expect4(dt), Expect5(dt), Expect6(pt)>>
        IN  /\ IsSubsequenceNoRepeat(Codes(alerts), FixedOrder)
            /\ (\A k \in 1..6 : ~e[k]) => alerts = <<>>
            /\ (\A k \in 1..6 : e[k]) => Codes(alerts) = FixedOrder

\* a call returned all six alerts
C2_Witness == Called /\ Codes(alerts) = FixedOrder

\* C3: exactly one AF_AC_STOPPED alert, of severity critical, is returned iff the
\* diagnoses text contains "atrial fibrillation" or "af" and some medication change
\* is a stop of a listed anticoagulant; otherwise none is returned.
C3_AfAcStopped ==
    Called =>
        IF Expect1(InputDiagnosesText)
        THEN /\ Cardinality(AlertsWith("AF_AC_STOPPED")) = 1
             /\ \A i \in AlertsWith("AF_AC_STOPPED") : alerts[i].severity = "critical"
        ELSE AlertsWith("AF_AC_STOPPED") = {}

\* diagnoses ["staff"] with two stopped anticoagulants: one alert
C3_Witness ==
    /\ Called
    /\ pristine.diagnoses = <<"staff">>
    /\ Cardinality({m \in InputMeds : m.action = "stop" /\ NamesAny(m, {"apixaban", "rivaroxaban"})}) = 2
    /\ Cardinality(AlertsWith("AF_AC_STOPPED")) = 1

\* C4: MI_NO_CARDIO_FU (warning) is returned iff the diagnoses text contains "mi",
\* "myocardial infarction" or "acs" and no follow-up type contains "cardio",
\* compared case-insensitively.
C4_MiNoCardioFu ==
    Called =>
        /\ Expect2(InputDiagnosesText) <=> AlertsWith("MI_NO_CARDIO_FU") # {}
        /\ \A i \in AlertsWith("MI_NO_CARDIO_FU") : alerts[i].severity = "warning"

\* diagnoses ["NSTEMI (ACS)"] with no follow-up: the alert is returned
C4_Witness ==
    /\ Called
    /\ pristine.diagnoses = <<"NSTEMI (ACS)">>
    /\ pristine.follow_up = <<>>
    /\ AlertsWith("MI_NO_CARDIO_FU") # {}

\* C5: MI_NO_STATIN (warning) is returned iff the MI/ACS trigger holds and no
\* medication change of any action names a listed statin; the follow-up list and
\* MI_NO_CARDIO_FU play no part.
C5_MiNoStatin ==
    Called =>
        /\ Expect3(InputDiagnosesText) <=> AlertsWith("MI_NO_STATIN") # {}
        /\ \A i \in AlertsWith("MI_NO_STATIN") : alerts[i].severity = "warning"

\* under the MI/ACS trigger: MI_NO_STATIN without MI_NO_CARDIO_FU
C5_Witness ==
    /\ Called /\ TriggerMI(InputDiagnosesText)
    /\ AlertsWith("MI_NO_STATIN") # {}
    /\ AlertsWith("MI_NO_CARDIO_FU") = {}

\* the other three combinations of the two alerts under the MI/ACS trigger
C5_BothFire ==
    Called /\ TriggerMI(InputDiagnosesText) /\ AlertsWith("MI_NO_STATIN") # {} /\ AlertsWith("MI_NO_CARDIO_FU") # {}
C5_OnlyCardioFu ==
    Called /\ TriggerMI(InputDiagnosesText) /\ AlertsWith("MI_NO_STATIN") = {} /\ AlertsWith("MI_NO_CARDIO_FU") # {}
C5_NeitherFires ==
    Called /\ TriggerMI(InputDiagnosesText) /\ AlertsWith("MI_NO_STATIN") = {} /\ AlertsWith("MI_NO_CARDIO_FU") = {}

\* C6: HF_INCOMPLETE_THERAPY (warning) is returned iff the diagnoses text contains
\* "heart failure" or "hf" and it is not the case that some medication name contains
\* an ACE/ARB/ARNI entry and some medication name contains a beta-blocker entry.
C6_HfIncompleteTherapy ==
    Called =>
        /\ Expect4(InputDiagnosesText) <=> AlertsWith("HF_INCOMPLETE_THERAPY") # {}
        /\ \A i \in AlertsWith("HF_INCOMPLETE_THERAPY") : alerts[i].severity = "warning"

\* Heart Failure with Bisoprolol and Ramipril: no alert
C6_Witness ==
    /\ Called
    /\ pristine.diagnoses = <<"Heart Failure">>
    /\ {m.name : m \in InputMeds} = {"Bisoprolol", "Ramipril"}
    /\ AlertsWith("HF_INCOMPLETE_THERAPY") = {}

\* Heart Failure with Bisoprolol and Sacubitril/Valsartan: no alert
C6_SacubitrilCounts ==
    /\ Called
    /\ pristine.diagnoses = <<"Heart Failure">>
    /\ {m.name : m \in InputMeds} = {"Bisoprolol", "Sacubitril/Valsartan"}
    /\ AlertsWith("HF_INCOMPLETE_THERAPY") = {}

\* C7: NO_REDFLAG_ADVICE (info) is returned iff the diagnoses text contains one of
\* the acute terms and red_flags is empty, whichever of rules 1-4 fired before it.
C7_NoRedflagAdvice ==
    Called =>
        /\ Expect5(InputDiagnosesText) <=> AlertsWith("NO_REDFLAG_ADVICE") # {}
        /\ \A i \in AlertsWith("NO_REDFLAG_ADVICE") : alerts[i].severity = "info"

\* rules 1 to 4 all fired and NO_REDFLAG_ADVICE follows them
C7_Witness ==
    /\ Called
    /\ Len(alerts) >= 5
    /\ SubSeq(Codes(alerts), 1, 5) = SubSeq(FixedOrder, 1, 5)

\* no earlier rule fired and NO_REDFLAG_ADVICE is returned
C7_FiresAlone == Called /\ Codes(alerts) = <<"NO_REDFLAG_ADVICE">>

\* C8: PCI_NO_DAPT_PLAN (info) is returned iff the procedures text contains "pci" or
\* "angioplasty" and no follow-up type, compared case-insensitively, contains any
\* of wound, stent, site, dapt, dual antiplatelet.
C8_PciNoDaptPlan ==
    Called =>
        /\ Expect6(InputProceduresText) <=> AlertsWith("PCI_NO_DAPT_PLAN") # {}
        /\ \A i \in AlertsWith("PCI_NO_DAPT_PLAN") : alerts[i].severity = "info"

\* Coronary angioplasty with a "Stent site review" follow-up: no alert
C8_Witness ==
    /\ Called
    /\ pristine.procedures = <<"Coronary angioplasty">>
    /\ "Stent site review" \in InputFollowUpTypes
    /\ AlertsWith("PCI_NO_DAPT_PLAN") = {}

\* C9: every call after the first returns the list the call before it returned,
\* whether it is given a fresh copy of the record as first built or the object
\* the earlier calls lower-cased.
C9_Deterministic == [][Called => alerts' = alerts]_vars

\* a call on the object returned alerts, the object's names were changed by it,
\* and a later call on a fresh copy has returned
C9_Witness ==
    /\ last_call = "copy"
    /\ extraction # pristine
    /\ alerts # <<>>

\* a call on a fresh copy returned alerts and a later call on the object,
\* whose names it changed, has returned
C9_WitnessSame ==
    /\ last_call = "same"
    /\ extraction # pristine
    /\ AlertsWith("AF_AC_STOPPED") # {}

\* the six fields of SamplePairs as the typed record holds them
SampleFields ==
    [diagnoses |-> <<"NSTEMI (ACS)", "Heart Failure">>,
     procedures |-> <<"Coronary angioplasty">>,
     medication_changes |->
        <<[name |-> "Apixaban", action |-> "stop", dose |-> None],
          [name |-> "Bisoprolol", action |-> "start", dose |-> "2.5mg"]>>,
     follow_up |->
        <<[type |-> "Cardiology clinic", when |-> "6 weeks", location |-> None]>>,
     pending_tests |-> <<>>,
     red_flags |-> <<"Chest pain: call 999">>]

\* the reply is the text of the object that supplies exactly the fields picked
RepliedWith(picked) ==
    /\ stage = "done"
    /\ content = PartialTexts[picked]

\* C10: when the reply is an object that leaves out any subset of the six
\* fields, extract_structured returns a record in which each field left out is
\* the empty list and each field supplied has the value supplied.
C10_DefaultsFilled ==
    \A picked \in SUBSET (1..6) :
        RepliedWith(picked) =>
            /\ result.kind = "return"
            /\ \A k \in 1..6 :
                  result.value[Keys[k]] =
                      IF k \in picked THEN SampleFields[Keys[k]] ELSE <<>>

\* the reply supplied medication_changes and red_flags only, and a record came back
C10_Witness ==
    /\ RepliedWith({3, 6})
    /\ result.kind = "return"
    /\ result.value.diagnoses = <<>>
    /\ result.value.medication_changes = SampleFields.medication_changes

\* the reply was the empty object and a record of six empty lists came back
C10_EmptyObject ==
    /\ RepliedWith({})
    /\ result.kind = "return"
    /\ \A k \in 1..6 : result.value[Keys[k]] = <<>>

\* Python: an exception of class error is an instance of class base
IsInstance(error, base) ==
    \/ error = base
    \/ base = "Exception"
    \/ error = "ValidationError" /\ base = "ValueError"

\* the reply is a text that is malformed or is a value of the wrong shape
RepliedIllShaped ==
    /\ stage = "done"
    /\ content \in MalformedTexts \cup {JsonTexts[d] : d \in IllShapedDocs}

\* C11: whenever the reply is malformed, is a value that is not an object, or is
\* an object with a field of the wrong shape, extract_structured raises, and what
\* it raises is always of the one error class (ValueError, the class of the parse
\* failure); it never returns a record and never raises anything else.
C11_OneSchemaError ==
    RepliedIllShaped =>
        /\ result.kind = "raise"
        /\ IsInstance(result.error, "ValueError")

\* the part of C11 that says no record is returned
C11_NeverReturns == RepliedIllShaped => result.kind = "raise"

\* the record that holds the supplied value of each field picked, <<>> elsewhere
Supplied(picked) ==
    [diagnoses |-> IF 1 \in picked THEN SampleFields.diagnoses ELSE <<>>,
     procedures |-> IF 2 \in picked THEN SampleFields.procedures ELSE <<>>,
     medication_changes |-> IF 3 \in picked THEN SampleFields.medication_changes ELSE <<>>,
     follow_up |-> IF 4 \in picked THEN SampleFields.follow_up ELSE <<>>,
     pending_tests |-> IF 5 \in picked THEN SampleFields.pending_tests ELSE <<>>,
     red_flags |-> IF 6 \in picked THEN SampleFields.red_flags ELSE <<>>]

\* the reply is the object of the fields picked between code fences with tag
RepliedFenced(tag, picked) ==
    /\ stage = "done"
    /\ content = Fenced(tag, PartialTexts[picked])

\* C12: a valid object text between a leading and a trailing code fence, with no
\* language tag or with any language tag, gives the record the same text gives
\* without the fences.
C12_FenceStripped ==
    \A tag \in LanguageTags, picked \in FencedPicks :
        RepliedFenced(tag, picked) => result = Returned(Supplied(picked))

\* the part of C12 that concerns no tag and the tag json in either case
C12_JsonTagOrNone ==
    \A tag \in {"", "json", "JSON"}, picked \in FencedPicks :
        RepliedFenced(tag, picked) => result = Returned(Supplied(picked))

\* the part of C12 that concerns a reply without fences
C12_UnfencedUntouched ==
    \A picked \in FencedPicks :
        RepliedWith(picked) => result = Returned(Supplied(picked))

\* C13: every error extract_structured raises for a rejected reply, whether the
\* reply could not be parsed or parsed to a value of the wrong shape, carries
\* the text of the reply that was rejected.
C13_ErrorCarriesRaw ==
    (RepliedIllShaped /\ result.kind = "raise") => result.message_raw = Strip(content)

\* the part of C13 that concerns a reply that cannot be parsed
C13_ParseErrorCarriesRaw ==
    (stage = "done" /\ content \in MalformedTexts) =>
        result = Raised("ValueError", Strip(content))

\* C14: deidentify_text called on what deidentify_text returned returns it
\* unchanged, also when the first text already held placeholders.
C14_ScrubIdempotent ==
    \A i \in 2..Len(outputs) : outputs[i] = outputs[1]

\* a text that held a placeholder and something to scrub went through two calls
C14_Witness ==
    /\ Len(outputs) >= 2
    /\ Contains(original, "<<")
    /\ outputs[1] # original

\* what the line-by-line model returns is what deidentify_text returns
C14_StepsAgree ==
    Len(outputs) >= 1 => outputs[1] = deidentify_text(original)

\* the five re.sub lines run in the given order
RECURSIVE ScrubIn(_, _)
ScrubIn(order, text) ==
    IF Len(order) = 0 THEN text
    ELSE ScrubIn(Tail(order), Sub(Head(order), text))

\* every order of the five rules
Orders ==
    {order \in [1..5 -> {"name", "dob", "nhs", "postcode", "phone"}] :
        \A i, j \in 1..5 : order[i] = order[j] => i = j}

\* C15: the five rules match disjoint shapes, so running them in any order
\* gives the text deidentify_text returns.
C15_OrderIndependent ==
    Len(outputs) >= 1 =>
        \A order \in Orders : ScrubIn(order, original) = outputs[1]

\* the part of C15 that leaves the NHS-number and phone rules in their order
C15_NhsBeforePhone ==
    Len(outputs) >= 1 =>
        \A order \in Orders :
            (\E i, j \in 1..5 : i < j /\ order[i] = "nhs" /\ order[j] = "phone")
                => ScrubIn(order, original) = outputs[1]

\* C16: every rule matches whatever the letter case: the text written in
\* lower case has the same spans replaced by the same placeholders, so the two
\* outputs differ in letter case at most.
C16_CaseInsensitive ==
    Len(outputs) >= 1 =>
        Lower(deidentify_text(Lower(original))) = Lower(outputs[1])

\* the part of C16 that concerns the rules other than the postcode rule
C16_OtherFour ==
    Len(outputs) >= 1 =>
        LET four == <<"name", "dob", "nhs", "phone">>
        IN  Lower(ScrubIn(four, Lower(original))) = Lower(ScrubIn(four, original))

\* text.split("\n")
RECURSIVE SplitLines(_)
SplitLines(text) ==
    IF ~Contains(text, "\n") THEN <<text>>
    ELSE LET i == CHOOSE k \in 1..Len(text) :
                      /\ CharAt(text, k) = "\n"
                      /\ \A j \in 1..(k - 1) : CharAt(text, j) # "\n"
         IN  <<SubSeq(text, 1, i - 1)>> \o SplitLines(SubSeq(text, i + 1, Len(text)))

\* the line begins with name: or dob: in any letter case
BeginsWithLabel(line) ==
    StartsWith(Lower(line), "name:") \/ StartsWith(Lower(line), "dob:")

\* the name and dob lines of the first call have run, the other three have not
AfterLabelRules == Len(outputs) = 0 /\ rule_no = 2

\* C17: the name and dob rules stay within one line: they leave the number of
\* lines as it was and every line that does not begin with a label as it was.
C17_LineConfined ==
    AfterLabelRules =>
        LET before == SplitLines(original)
            after == SplitLines(scrub_text)
        IN  /\ Len(after) = Len(before)
            /\ \A i \in 1..Len(before) :
                  ~BeginsWithLabel(before[i]) => after[i] = before[i]

\* the object differs from the record it was built as in medication names at most,
\* and each name is the one it was built with or its lower-case form
OnlyNamesLowered ==
    /\ extraction.diagnoses = pristine.diagnoses
    /\ extraction.procedures = pristine.procedures
    /\ extraction.follow_up = pristine.follow_up
    /\ extraction.pending_tests = pristine.pending_tests
    /\ extraction.red_flags = pristine.red_flags
    /\ Len(extraction.medication_changes) = Len(pristine.medication_changes)
    /\ \A i \in 1..Len(pristine.medication_changes) :
          LET was == pristine.medication_changes[i]
              is == extraction.medication_changes[i]
          IN  /\ is.action = was.action
              /\ is.dose = was.dose
              /\ is.name \in {was.name, Lower(was.name)}
              /\ last_call = "same" => is.name = Lower(was.name)
              /\ last_call = "none" => is.name = was.name

\* C18: run_rules changes nothing of the record it is given but the medication
\* names, which become their lower-case forms; it leaves the drug tables as
\* they are; and a further call on the same object changes nothing at all.
C18_OnlyNamesLowered ==
    /\ [](OnlyNamesLowered /\ tables = DrugTables)
    /\ [][(last_call = "same" \/ last_call' = "copy") => extraction' = extraction]_vars

\* a call on the object has lower-cased a name of a medication that carries a dose
C18_Witness ==
    /\ last_call = "same"
    /\ extraction # pristine
    /\ \E i \in 1..Len(extraction.medication_changes) :
          /\ extraction.medication_changes[i].dose # None
          /\ extraction.medication_changes[i].name # pristine.medication_changes[i].name

\* C19: under every interleaving of the steps of the calls, on one object each
\* or all on the same object, each call returns the list run_rules returns for
\* the object as it was given, and a rule check never finds a medication name
\* other than the lower-case form of the name given.
C19_NoCoordinationNeeded ==
    \A p \in DOMAIN calls :
        /\ calls[p].pc = "done" =>
              calls[p].returned = run_rules(given[calls[p].ref], DrugTables)
        /\ calls[p].pc \in {RuleSteps[k] : k \in 1..Len(RuleSteps)} =>
              heap[calls[p].ref].medication_changes
                  = lower_meds(given[calls[p].ref].medication_changes)

\* all the calls were given the same object, all have returned, with alerts,
\* and the names of the object were lower-cased on the way
C19_Witness ==
    /\ DOMAIN calls # {}
    /\ \A p \in DOMAIN calls : calls[p].ref = 1 /\ calls[p].pc = "done"
    /\ calls[1].returned # <<>>
    /\ heap[1] # given[1]

====
